---- MODULE Spec2Model ----
(***************************************************************************)
(* VectorCodec (src/VectorCodec.hpp): a lossless codec for arrays of       *)
(* 32-bit words, in two variants (Encode/Decode with a 256-entry xor       *)
(* predictor table, EncodeQuick/DecodeQuick with the delta stage only).    *)
(*                                                                         *)
(* A 32-bit word is a 4-tuple of bytes, least significant byte first (the  *)
(* byte order of the little-endian host the AVX2 code runs on), because    *)
(* TLC's integers stop at 2^31-1.  Every shift the codec applies to a      *)
(* value is a multiple of 8 bits, so it is a move of whole bytes.  Memory  *)
(* (the encoded stream) is a partial function from byte offsets to bytes:  *)
(* its domain is exactly the set of offsets the encoder stored to.         *)
(***************************************************************************)
EXTENDS Integers, Sequences, FiniteSets, TLC

\* ------------------------------------------------------------------ bounds
\* largest value_count explored (two blocks, the second one partial)
MaxCount == 9

\* the 32-bit input words arrays are drawn from
WordSet == { <<0, 0, 0, 0>>, <<1, 0, 0, 1>> }

\* results of __builtin_clz(0), which is undefined: 32 when the build uses
\* LZCNT, 31 from BSR followed by XOR 31 on a zeroed register, and a stale
\* register value otherwise (40 stands for every value of 40 or more)
ClzZeroOutcomes == { 32, 31, 40 }

\* contents of the bytes of the out buffer that Encode never stored to
FillOutcomes == { 0, 255 }

\* ------------------------------------------------------- program constants
LookupSize == 256
ModMask == LookupSize - 1
LSBDiscardedCount == 8
HashShift == 16

VARIABLES
    source,        \* Test.cpp: the input array (values, value_count = Len)
    clz0,          \* what VECTOR_CODEC_CLZ returns for 0 in this build
    fill,          \* the byte found at offsets the encoder never stored to
    pc,            \* "init", "encoded", "decoded"
    encoder,       \* which encoder ran: "none", "Encode", "EncodeQuick"
    destination,   \* the out buffer after encoding: offset -> byte
    k,             \* the value the encoder returned
    log,           \* what the encoder did, block by block
    decoder,       \* which decoder ran
    check,         \* the words the decoder stored into out: index -> word
    loaded         \* the stream offsets the decoder loaded

vars == << source, clz0, fill, pc, encoder, destination, k, log, decoder, check, loaded >>

\* --------------------------------------------------------- 32-bit lane ops
Lanes == 0..7
ZeroWord == <<0, 0, 0, 0>>

\* a __m256i as eight 32-bit lanes: lane kk of v is Lane(v, kk)
Lane(v, kk) == v[kk + 1]
Vec8(F(_)) == << F(0), F(1), F(2), F(3), F(4), F(5), F(6), F(7) >>

Lo16(w) == w[1] + 256 * w[2]
Hi16(w) == w[3] + 256 * w[4]
Mk32(lo, hi) == << lo % 256, lo \div 256, hi % 256, hi \div 256 >>

\* _mm256_sub_epi32, one lane: a - b modulo 2^32
Sub32(a, b) ==
    LET lo == Lo16(a) - Lo16(b)
        borrow == IF lo < 0 THEN 1 ELSE 0
    IN  Mk32((lo + 65536) % 65536, (Hi16(a) - Hi16(b) - borrow + 65536) % 65536)

\* _mm256_add_epi32, one lane: a + b modulo 2^32
Add32(a, b) ==
    LET lo == Lo16(a) + Lo16(b)
        carry == lo \div 65536
    IN  Mk32(lo % 65536, (Hi16(a) + Hi16(b) + carry) % 65536)

RECURSIVE XorBits(_, _)
XorBits(a, b) ==
    IF a = 0 THEN b ELSE IF b = 0 THEN a
    ELSE ((a + b) % 2) + 2 * XorBits(a \div 2, b \div 2)

\* _mm256_xor_si256, one lane
Xor32(a, b) == << XorBits(a[1], b[1]), XorBits(a[2], b[2]),
                  XorBits(a[3], b[3]), XorBits(a[4], b[4]) >>

\* _mm256_srli_epi32 / _mm256_srlv_epi32 by 8*n bits (0 once 8*n >= 32)
SrlBytes(w, n) ==
    LET b(i) == IF i + n <= 4 THEN w[i + n] ELSE 0 IN << b(1), b(2), b(3), b(4) >>

\* _mm256_sllv_epi32 by 8*n bits
SllBytes(w, n) ==
    LET b(i) == IF i - n >= 1 THEN w[i - n] ELSE 0 IN << b(1), b(2), b(3), b(4) >>

\* the slot of the lookup table a delta hashes to
HashIndex(d) ==
    LET tmp == SrlBytes(d, LSBDiscardedCount \div 8)
        x == Xor32(tmp, SrlBytes(tmp, HashShift \div 8))
    IN  x[1] % (ModMask + 1)

\* the memory read at offset i: what was stored there, else the fill byte
Mem(mem, i) == IF i \in DOMAIN mem THEN mem[i] ELSE fill

\* *(uint32_t*)p = v on a little-endian host
Store32(mem, p, v) ==
    (p :> v[1]) @@ ((p + 1) :> v[2]) @@ ((p + 2) :> v[3]) @@ ((p + 3) :> v[4]) @@ mem

\* *(const uint32_t*)p
Load32(mem, p) == << Mem(mem, p), Mem(mem, p + 1), Mem(mem, p + 2), Mem(mem, p + 3) >>

\* UpperBound(value_count)
UpperBound(value_count) ==
    LET h == (value_count + 1) \div 2
        d == ((value_count + 31) \div 32) * 32
    IN  h + d


\* ------------------------------------------------------------- lane codec
\* tzcounts after the shift by 3: the count of trailing zero bytes, 4 for 0
TrailingZeroBytes(v) ==
    IF v[1] # 0 THEN 0 ELSE IF v[2] # 0 THEN 1 ELSE IF v[3] # 0 THEN 2
    ELSE IF v[4] # 0 THEN 3 ELSE 4

\* a tz field that wraps a count of 4 bytes to 0 instead of storing it as 3
TzFieldWrapped(v) == TrailingZeroBytes(v) % 4

\* the tz field: tzcounts - (tzcounts >> 2), so 0,1,2,3,4 -> 0,1,2,3,3
TzField(v) == LET q == TrailingZeroBytes(v) IN q - (q \div 4)

RECURSIVE BitLen(_)
BitLen(b) == IF b = 0 THEN 0 ELSE 1 + BitLen(b \div 2)

\* __builtin_clz: the count of leading zero bits; undefined for 0
VECTOR_CODEC_CLZ(v) ==
    IF v[4] # 0 THEN 8 - BitLen(v[4])
    ELSE IF v[3] # 0 THEN 16 - BitLen(v[3])
    ELSE IF v[2] # 0 THEN 24 - BitLen(v[2])
    ELSE IF v[1] # 0 THEN 32 - BitLen(v[1])
    ELSE clz0

\* lzcounts: clz of the shifted residual, shifted right by 3
LzBytes(s) == VECTOR_CODEC_CLZ(s) \div 8

\* tmp: the payload cursor advance, 4 - (lzcounts - (lzcounts == 3))
Width(lzb) == 4 - (lzb - (IF lzb = 3 THEN 1 ELSE 0))

\* the lz field: lzcounts - (lzcounts > 2)
LzField(lzb) == lzb - (IF lzb > 2 THEN 1 ELSE 0)

Bit(n, j) == j <= 30 /\ (n \div (2 ^ j)) % 2 = 1

\* bit i of the header word: the OR over the lanes of lz << 2k and
\* tz << (16 + 2k), each truncated to 32 bits
HeaderBit(i, lz, tz) ==
    \/ \E kk \in Lanes : i >= 2 * kk /\ Bit(Lane(lz, kk), i - 2 * kk)
    \/ \E kk \in Lanes : i >= 16 + 2 * kk /\ Bit(Lane(tz, kk), i - 16 - 2 * kk)

\* x[0] | x[1] << 2 | ... | x[7] << 14, for fields under 4 (they do not overlap)
Fields16(x) ==
    x[1] + 4 * x[2] + 16 * x[3] + 64 * x[4] + 256 * x[5] + 1024 * x[6]
    + 4096 * x[7] + 16384 * x[8]

\* the header word, as the four bytes stored through out_headers: the lz
\* fields in the low half and the tz fields in the high half; an lz of 4 or
\* more spills into the bits above its field
PackHeader(lz, tz) ==
    IF \A kk \in Lanes : Lane(lz, kk) < 4
    THEN Mk32(Fields16(lz), Fields16(tz))
    ELSE LET bit(i) == IF HeaderBit(i, lz, tz) THEN 1 ELSE 0
             byte(b) == bit(8 * b) + 2 * bit(8 * b + 1) + 4 * bit(8 * b + 2)
                        + 8 * bit(8 * b + 3) + 16 * bit(8 * b + 4) + 32 * bit(8 * b + 5)
                        + 64 * bit(8 * b + 6) + 128 * bit(8 * b + 7)
         IN  << byte(0), byte(1), byte(2), byte(3) >>

\* where the cursor stands before lane kk: out plus the advances of lanes 0..kk-1
RECURSIVE CursorAt(_, _, _)
CursorAt(out, w, kk) == IF kk = 0 THEN out ELSE CursorAt(out, w, kk - 1) + w[kk]

Cursors(out, w) == Vec8(LAMBDA kk : CursorAt(out, w, kk))

\* the eight payload stores, lane 0 first: 4 bytes each at the lane's cursor
RECURSIVE StorePayload(_, _, _, _)
StorePayload(mem, at, s, kk) ==
    IF kk = 8 THEN mem
    ELSE StorePayload(Store32(mem, Lane(at, kk), Lane(s, kk)), at, s, kk + 1)

\* the offsets lane payloads occupy: [cursor, cursor + w) for every lane
PayloadBytes(at, w) ==
    UNION { Lane(at, kk)..(Lane(at, kk) + Lane(w, kk) - 1) : kk \in Lanes }

\* tz field, shifted residual, lz field and cursor advance of one lane
StripLane(r) ==
    LET tz == TzField(r)
        s == SrlBytes(r, tz)
        lzb == LzBytes(s)
    IN  [ tz |-> tz, s |-> s, lz |-> LzField(lzb), w |-> Width(lzb) ]

\* byte-strip the eight residuals, store payloads and header, advance
EmitBlock(st, vec, delta, resid, n) ==
    LET lanes == Vec8(LAMBDA kk : StripLane(Lane(resid, kk)))
        tz == Vec8(LAMBDA kk : Lane(lanes, kk).tz)
        s == Vec8(LAMBDA kk : Lane(lanes, kk).s)
        w == Vec8(LAMBDA kk : Lane(lanes, kk).w)
        lz == Vec8(LAMBDA kk : Lane(lanes, kk).lz)
        at == Cursors(st.out, w)
        mem1 == StorePayload(st.mem, at, s, 0)
        pay == st.payload \cup PayloadBytes(at, w)
        hdr == st.out_headers..(st.out_headers + 3)
        rec == [ first |-> st.values, real |-> IF n - st.values < 8 THEN n - st.values ELSE 8,
                 delta |-> delta, resid |-> resid, tz |-> tz, lz |-> lz, s |-> s, w |-> w,
                 at |-> at, header |-> st.out_headers ]
    IN  [st EXCEPT !.mem = Store32(mem1, st.out_headers, PackHeader(lz, tz)),
                   !.out = CursorAt(st.out, w, 8),
                   !.out_headers = st.out_headers + 4,
                   !.values = st.values + 8,
                   !.prior = vec,
                   !.payload = pay,
                   !.clobbered = st.clobbered \cup (hdr \cap pay),
                   !.blocks = Append(st.blocks, rec)]

\* ---------------------------------------------------------------- encoders
\* a block load that pads a partial block with the previous block's values,
\* so that a padded lane's delta is zero
LoadBlockCarryPrior(src, values) ==
    Vec8(LAMBDA kk : IF values + kk < Len(src) THEN src[values + kk + 1]
                     ELSE IF values >= 8 THEN src[values + kk - 7]
                     ELSE ZeroWord)

\* the eight values of the block at values: a full load, or the memcpy of
\* the remaining ones into a zeroed vector
LoadBlock(src, values) ==
    Vec8(LAMBDA kk : IF values + kk < Len(src) THEN src[values + kk + 1] ELSE ZeroWord)

\* the lookup table holds the slots stored to; every other slot is still 0
LookupAt(lookup, j) == IF j \in DOMAIN lookup THEN lookup[j] ELSE ZeroWord

\* the eight lookup stores with the lowest lane winning a shared slot
RECURSIVE LookupStoreFirstWins(_, _, _, _)
LookupStoreFirstWins(lookup, indices, vec, kk) ==
    IF kk = 8 THEN lookup
    ELSE (Lane(indices, kk) :> Lane(vec, kk))
             @@ LookupStoreFirstWins(lookup, indices, vec, kk + 1)

\* lookup[indices[0]] = vec[0]; ... lookup[indices[7]] = vec[7], in this order
RECURSIVE LookupStore(_, _, _, _)
LookupStore(lookup, indices, vec, kk) ==
    IF kk = 8 THEN lookup
    ELSE LookupStore((Lane(indices, kk) :> Lane(vec, kk)) @@ lookup, indices, vec, kk + 1)

ZeroVec == Vec8(LAMBDA kk : ZeroWord)

EncodeStart(value_count) ==
    [ values |-> 0, prior |-> ZeroVec, xprior |-> ZeroVec,
      indices |-> Vec8(LAMBDA kk : 0), lookup |-> << >>,
      mem |-> << >>, out |-> (value_count + 1) \div 2, out_headers |-> 0,
      payload |-> {}, clobbered |-> {}, blocks |-> << >> ]

\* Encode_AVX2 with the gather moved before the xor: the residual is xored
\* with the value gathered for the current block's slot
EncodeBodyGatherFirst(st, src) ==
    LET vec == LoadBlock(src, st.values)
        delta == Vec8(LAMBDA kk : Sub32(Lane(vec, kk), Lane(st.prior, kk)))
        lookup2 == LookupStore(st.lookup, st.indices, delta, 0)
        indices2 == Vec8(LAMBDA kk : HashIndex(Lane(delta, kk)))
        xprior2 == Vec8(LAMBDA kk : LookupAt(lookup2, Lane(indices2, kk)))
        resid == Vec8(LAMBDA kk : Xor32(Lane(delta, kk), Lane(xprior2, kk)))
    IN  EmitBlock([st EXCEPT !.lookup = lookup2, !.indices = indices2, !.xprior = xprior2],
                  vec, delta, resid, Len(src))

\* one pass of the do-while body of Encode_AVX2
EncodeBody(st, src) ==
    LET vec == LoadBlock(src, st.values)
        delta == Vec8(LAMBDA kk : Sub32(Lane(vec, kk), Lane(st.prior, kk)))
        lookup2 == LookupStore(st.lookup, st.indices, delta, 0)
        indices2 == Vec8(LAMBDA kk : HashIndex(Lane(delta, kk)))
        resid == Vec8(LAMBDA kk : Xor32(Lane(delta, kk), Lane(st.xprior, kk)))
        xprior2 == Vec8(LAMBDA kk : LookupAt(lookup2, Lane(indices2, kk)))
    IN  EmitBlock([st EXCEPT !.lookup = lookup2, !.indices = indices2, !.xprior = xprior2],
                  vec, delta, resid, Len(src))

\* do { ... } while (values < end); st2 is the state after one pass of the body
RECURSIVE EncodeLoop(_, _)
EncodeLoop(st, src) ==
    CHOOSE r \in { IF st2.values < Len(src) THEN EncodeLoop(st2, src) ELSE st2 :
                      st2 \in { EncodeBody(st, src) } } : TRUE

Encode_AVX2(src) == EncodeLoop(EncodeStart(Len(src)), src)

\* one pass of the do-while body of EncodeQuick_AVX2
EncodeQuickBody(st, src) ==
    LET vec == LoadBlock(src, st.values)
        delta == Vec8(LAMBDA kk : Sub32(Lane(vec, kk), Lane(st.prior, kk)))
    IN  EmitBlock(st, vec, delta, delta, Len(src))

RECURSIVE EncodeQuickLoop(_, _)
EncodeQuickLoop(st, src) ==
    CHOOSE r \in { IF st2.values < Len(src) THEN EncodeQuickLoop(st2, src) ELSE st2 :
                      st2 \in { EncodeQuickBody(st, src) } } : TRUE

EncodeQuick_AVX2(src) == EncodeQuickLoop(EncodeStart(Len(src)), src)

\* ---------------------------------------------------------------- decoders
\* (header >> pos) & 3, for an even bit position pos
HeaderField(header, pos) == (header[(pos \div 8) + 1] \div (2 ^ (pos % 8))) % 4

\* the payload width of a lane from its lz field: 4 - (lz + ((lz + 1) >> 2))
DecodeWidth(lz) == 4 - (lz + ((lz + 1) \div 4))

\* vec & ((1 << 8w) - 1): the low w bytes of the gathered word
MaskLow(v, w) ==
    LET b(i) == IF i <= w THEN v[i] ELSE 0 IN << b(1), b(2), b(3), b(4) >>

\* a tail memcpy of the whole vector
TailLanesWholeVector(value_count) == Lanes

\* the lanes the tail memcpy of value_count << 2 bytes copies
TailLanes(value_count) == 0..(value_count - 1)

DecodeStart(value_count) ==
    [ in_headers |-> 0, data |-> (value_count + 1) \div 2,
      prior |-> ZeroVec, xprior |-> ZeroVec,
      indices |-> Vec8(LAMBDA kk : 0), lookup |-> << >>,
      value_count |-> value_count, out |-> 0, check |-> << >>, loaded |-> {},
      returned |-> FALSE ]

\* header load, widths, prefix sum, gather, mask and shift: the residuals
Unpack(st, mem) ==
    LET header == Load32(mem, st.in_headers)
        w == Vec8(LAMBDA kk : DecodeWidth(HeaderField(header, 2 * kk)))
        at == Cursors(st.data, w)
        tz == Vec8(LAMBDA kk : HeaderField(header, 16 + 2 * kk))
    IN  [ w |-> w, at |-> at, tz |-> tz,
          resid |-> Vec8(LAMBDA kk : SllBytes(MaskLow(Load32(mem, Lane(at, kk)), Lane(w, kk)),
                                              Lane(tz, kk))),
          data |-> CursorAt(st.data, w, 8),
          loaded |-> (st.in_headers..(st.in_headers + 3))
                       \cup UNION { Lane(at, kk)..(Lane(at, kk) + 3) : kk \in Lanes } ]

\* out[0..] = the lanes of vec, for the lanes in which
StoreLanes(chk, out, vec, which) ==
    [i \in (DOMAIN chk) \cup { out + kk : kk \in which } |->
        IF i - out \in which THEN Lane(vec, i - out) ELSE chk[i]]

\* the end of the loop body: the tail memcpy and return, or the full store
StoreBlock(st, vec) ==
    IF st.value_count < 8
    THEN [st EXCEPT !.check = IF st.value_count # 0
                              THEN StoreLanes(st.check, st.out, vec, TailLanes(st.value_count))
                              ELSE st.check,
                    !.returned = TRUE]
    ELSE [st EXCEPT !.check = StoreLanes(st.check, st.out, vec, Lanes),
                    !.prior = vec,
                    !.value_count = st.value_count - 8,
                    !.out = st.out + 8]

\* one pass of the while (true) body of Decode_AVX2
DecodeBody(st, mem) ==
    LET u == Unpack(st, mem)
        delta == Vec8(LAMBDA kk : Xor32(Lane(u.resid, kk), Lane(st.xprior, kk)))
        lookup2 == LookupStore(st.lookup, st.indices, delta, 0)
        indices2 == Vec8(LAMBDA kk : HashIndex(Lane(delta, kk)))
        xprior2 == Vec8(LAMBDA kk : LookupAt(lookup2, Lane(indices2, kk)))
        vec == Vec8(LAMBDA kk : Add32(Lane(delta, kk), Lane(st.prior, kk)))
    IN  StoreBlock([st EXCEPT !.in_headers = st.in_headers + 4, !.data = u.data,
                             !.lookup = lookup2, !.indices = indices2, !.xprior = xprior2,
                             !.loaded = st.loaded \cup u.loaded], vec)

RECURSIVE DecodeLoop(_, _)
DecodeLoop(st, mem) ==
    CHOOSE r \in { IF st2.returned THEN st2 ELSE DecodeLoop(st2, mem) :
                      st2 \in { DecodeBody(st, mem) } } : TRUE

Decode_AVX2(mem, value_count) == DecodeLoop(DecodeStart(value_count), mem)

\* one pass of the while (true) body of DecodeQuick_AVX2
DecodeQuickBody(st, mem) ==
    LET u == Unpack(st, mem)
        vec == Vec8(LAMBDA kk : Add32(Lane(u.resid, kk), Lane(st.prior, kk)))
    IN  StoreBlock([st EXCEPT !.in_headers = st.in_headers + 4, !.data = u.data,
                             !.loaded = st.loaded \cup u.loaded], vec)

RECURSIVE DecodeQuickLoop(_, _)
DecodeQuickLoop(st, mem) ==
    CHOOSE r \in { IF st2.returned THEN st2 ELSE DecodeQuickLoop(st2, mem) :
                      st2 \in { DecodeQuickBody(st, mem) } } : TRUE

DecodeQuick_AVX2(mem, value_count) == DecodeQuickLoop(DecodeStart(value_count), mem)

\* ------------------------------------------------------------ state machine
NoLog == [ blocks |-> << >>, payload |-> {}, clobbered |-> {} ]

Init ==
    /\ source \in UNION { [1..n -> WordSet] : n \in 0..MaxCount }
    /\ clz0 \in ClzZeroOutcomes
    /\ fill \in FillOutcomes
    /\ pc = "init"
    /\ encoder = "none"
    /\ destination = << >>
    /\ k = 0
    /\ log = NoLog
    /\ decoder = "none"
    /\ check = << >>
    /\ loaded = {}

Encoded(name, st) ==
    /\ pc' = "encoded"
    /\ encoder' = name
    /\ destination' = st.mem
    /\ k' = st.out
    /\ log' = [ blocks |-> st.blocks, payload |-> st.payload, clobbered |-> st.clobbered ]
    /\ UNCHANGED << source, clz0, fill, decoder, check, loaded >>

\* size_t Encode(values, value_count, out)
Encode ==
    /\ pc = "init"
    /\ Encoded("Encode", Encode_AVX2(source))

\* size_t EncodeQuick(values, value_count, out)
EncodeQuick ==
    /\ pc = "init"
    /\ Encoded("EncodeQuick", EncodeQuick_AVX2(source))

Decoded(name, st) ==
    /\ pc' = "decoded"
    /\ decoder' = name
    /\ check' = st.check
    /\ loaded' = st.loaded
    /\ UNCHANGED << source, clz0, fill, encoder, destination, k, log >>

\* void Decode(compressed, value_count, out), with the value_count of the encoder
Decode ==
    /\ pc = "encoded"
    /\ Decoded("Decode", Decode_AVX2(destination, Len(source)))

\* void DecodeQuick(compressed, value_count, out)
DecodeQuick ==
    /\ pc = "encoded"
    /\ Decoded("DecodeQuick", DecodeQuick_AVX2(destination, Len(source)))

Next == Encode \/ EncodeQuick \/ Decode \/ DecodeQuick

Spec == Init /\ [][Next]_vars


\* -------------------------------------------------------------- properties
value_count == Len(source)

\* the array the decoder stored equals the input array, word for word
RoundTrip ==
    \A i \in 1..value_count : (i - 1) \in DOMAIN check /\ check[i - 1] = source[i]

\* C1: Decode on the bytes of Encode, with the same value_count, writes an
\* array bit-for-bit equal to the input, for every value_count >= 0
C1_FullRoundTrip ==
    (pc = "decoded" /\ encoder = "Encode" /\ decoder = "Decode") => RoundTrip

\* C2: DecodeQuick on the bytes of EncodeQuick, with the same value_count,
\* writes an array bit-for-bit equal to the input, for every value_count >= 0
C2_QuickRoundTrip ==
    (pc = "decoded" /\ encoder = "EncodeQuick" /\ decoder = "DecodeQuick") => RoundTrip

\* C3: the byte count Encode or EncodeQuick returns is at most
\* UpperBound(value_count)
C3_SizeWithinUpperBound ==
    pc # "init" => k <= UpperBound(value_count)

\* C4: UpperBound(N) = ceil(N/2) + 4*N for every N
C4_UpperBoundFormula ==
    UpperBound(value_count) = (value_count + 1) \div 2 + 4 * value_count

\* C5: the decoder of a variant loads only stream bytes at offsets below the
\* value k its encoder returned
C5_LoadsBelowReturnedSize ==
    (pc = "decoded" /\ ( \/ encoder = "Encode" /\ decoder = "Decode"
                         \/ encoder = "EncodeQuick" /\ decoder = "DecodeQuick" ))
        => \A i \in loaded : i >= 0 /\ i < k

\* C6: Decode and DecodeQuick store exactly the positions 0..value_count-1 of
\* out and no position at or above value_count
C6_StoresExactlyN ==
    pc = "decoded" => DOMAIN check = 0..(value_count - 1)

\* a decode of a full block followed by a partial one
C6_Witness ==
    /\ pc = "decoded"
    /\ value_count > 8 /\ value_count % 8 # 0
    /\ DOMAIN check = 0..(value_count - 1)

\* some block has a residual that is not zero
NonTrivial ==
    \E b \in 1..Len(log.blocks) : \E kk \in Lanes :
        Lane(log.blocks[b].resid, kk) # ZeroWord

\* the xor stage changed a residual: some lane's residual is not its delta
XorChanged ==
    \E b \in 1..Len(log.blocks) : \E kk \in Lanes :
        Lane(log.blocks[b].resid, kk) # Lane(log.blocks[b].delta, kk)

C8_HeaderAreaHoldsHeaders ==
    (pc # "init" /\ value_count >= 1)
        => /\ 4 * ((value_count + 7) \div 8) <= (value_count + 1) \div 2
           /\ \A b \in 1..Len(log.blocks) :
                log.blocks[b].header + 3 < (value_count + 1) \div 2
           /\ \A i \in log.payload : i >= (value_count + 1) \div 2
           /\ log.clobbered = {}

\* C9: with value_count = 0 the encoders return 0 and store no byte, and the
\* decoders load no byte and store nothing
C9_EmptyInput ==
    value_count = 0
        => /\ UpperBound(value_count) = 0
           /\ pc # "init" => (k = 0 /\ DOMAIN destination = {})
           /\ pc = "decoded" => (loaded = {} /\ DOMAIN check = {})

\* the lane codec inverts itself on lane kk of an encoded block: the width
\* the decoder computes from the lz field of the header equals the cursor
\* advance, and the low w bytes of the shifted residual, shifted back by tz
\* bytes, are the residual
LaneInverts(blk, kk) ==
    LET header == PackHeader(blk.lz, blk.tz)
        w == DecodeWidth(HeaderField(header, 2 * kk))
        tz == HeaderField(header, 16 + 2 * kk)
    IN  /\ w = Lane(blk.w, kk)
        /\ tz = Lane(blk.tz, kk)
        /\ SllBytes(MaskLow(Lane(blk.s, kk), w), tz) = Lane(blk.resid, kk)

\* C10: for every residual, 0 included, the decoder's width equals the
\* encoder's cursor advance and the masked, shifted-back payload equals the
\* residual; so the decoder's lane offsets and its advance over the block
\* equal the encoder's
C10_LaneCodecInverts ==
    \A b \in 1..Len(log.blocks) :
        /\ \A kk \in Lanes : LaneInverts(log.blocks[b], kk)
        /\ LET header == PackHeader(log.blocks[b].lz, log.blocks[b].tz)
               w == Vec8(LAMBDA kk : DecodeWidth(HeaderField(header, 2 * kk)))
           IN  /\ Cursors(Lane(log.blocks[b].at, 0), w) = log.blocks[b].at
               /\ CursorAt(0, w, 8) = CursorAt(0, log.blocks[b].w, 8)

\* the lookup slot the encoder computed from lane kk of block b (the slot is
\* 0 before the first block)
SlotOf(b, kk) ==
    IF b = 0 THEN 0 ELSE HashIndex(Lane(log.blocks[b].delta, kk))

\* the entry j of lookup after the store step of block b: the delta of the
\* highest lane of block b whose slot of block b-1 is j, else the entry as it
\* was after block b-1; every entry is zero before the first block
RECURSIVE TableAfter(_, _)
TableAfter(b, j) ==
    IF b = 0 THEN ZeroWord
    ELSE LET hit == { kk \in Lanes : SlotOf(b - 1, kk) = j }
         IN  IF hit = {} THEN TableAfter(b - 1, j)
             ELSE Lane(log.blocks[b].delta,
                       CHOOSE m \in hit : \A n \in hit : n <= m)

\* C11 as stated: in the full encoder the residual of lane k of block b is
\* delta[b][k] xor lookup[i_k], with i_k the slot computed from the current
\* block's delta and lookup read after block b's store step
C11_XorWithCurrentSlot ==
    (pc # "init" /\ encoder = "Encode")
        => \A b \in 1..Len(log.blocks) : \A kk \in Lanes :
              Lane(log.blocks[b].resid, kk)
                  = Xor32(Lane(log.blocks[b].delta, kk), TableAfter(b, SlotOf(b, kk)))

\* C11 as amended: the residual of lane k of block b is delta[b][k] xor the
\* value gathered during block b-1, that is lookup read after block b-1's
\* store step at the slot computed from delta[b-1][k]; it is delta[b][k]
\* itself in the first block
C11_XorWithPreviousGather ==
    (pc # "init" /\ encoder = "Encode")
        => \A b \in 1..Len(log.blocks) : \A kk \in Lanes :
              Lane(log.blocks[b].resid, kk)
                  = Xor32(Lane(log.blocks[b].delta, kk),
                          IF b = 1 THEN ZeroWord
                          ELSE TableAfter(b - 1, SlotOf(b - 1, kk)))

\* Encode of two blocks where the xor stage changed a residual of the second
C11_Witness ==
    /\ pc # "init" /\ encoder = "Encode"
    /\ Len(log.blocks) = 2
    /\ \E kk \in Lanes :
          /\ Lane(log.blocks[2].resid, kk) # Lane(log.blocks[2].delta, kk)
          /\ TableAfter(1, SlotOf(1, kk)) # ZeroWord

\* the cursor advances of the first `real` lanes of blocks 1..b, summed
RECURSIVE RealWidths(_)
RealWidths(b) ==
    IF b = 0 THEN 0
    ELSE RealWidths(b - 1) + CursorAt(0, log.blocks[b].w, log.blocks[b].real)

\* the cursor advances of all eight lanes of blocks 1..b, summed
RECURSIVE AllWidths(_)
AllWidths(b) ==
    IF b = 0 THEN 0 ELSE AllWidths(b - 1) + CursorAt(0, log.blocks[b].w, 8)

\* the padded lanes of the final block
PaddedLanes == { kk \in Lanes : kk >= value_count % 8 }

\* the value the previous block holds in lane kk of the final, partial block
PriorOfPadded(kk) ==
    IF value_count > 8 THEN source[value_count - (value_count % 8) - 8 + kk + 1]
    ELSE ZeroWord

\* C12 as stated: when value_count mod 8 # 0 the padded lanes of the final
\* block contribute no payload byte, and the returned size is ceil(N/2) plus
\* the payload widths of the N real values only
C12_PaddingNeverEmitted ==
    (pc # "init" /\ value_count % 8 # 0)
        => /\ \A kk \in PaddedLanes : Lane(log.blocks[Len(log.blocks)].w, kk) = 0
           /\ k = (value_count + 1) \div 2 + RealWidths(Len(log.blocks))

\* C12 as amended: a padded lane is encoded like a real one; its delta is
\* 0 - the previous block's value in that lane, a padded lane with a residual
\* that is not zero contributes payload bytes (with EncodeQuick: whenever the
\* previous block's value in that lane is not zero), and the returned size is
\* ceil(N/2) plus the cursor advances of all eight lanes of every block
C12_PaddingEncodedLikeValues ==
    (pc # "init" /\ value_count % 8 # 0)
        => LET last == log.blocks[Len(log.blocks)]
           IN  /\ k = (value_count + 1) \div 2 + AllWidths(Len(log.blocks))
               /\ \A kk \in PaddedLanes :
                    /\ Lane(last.delta, kk) = Sub32(ZeroWord, PriorOfPadded(kk))
                    /\ Lane(last.resid, kk) # ZeroWord =>
                          /\ Lane(last.w, kk) >= 1
                          /\ Lane(last.at, kk) \in log.payload
                    /\ (encoder = "EncodeQuick" /\ PriorOfPadded(kk) # ZeroWord)
                          => Lane(last.resid, kk) # ZeroWord

\* an array of two blocks whose padded lane emits four payload bytes
C12_Witness ==
    /\ pc # "init" /\ value_count > 8 /\ value_count % 8 # 0
    /\ \E kk \in PaddedLanes :
          /\ PriorOfPadded(kk) # ZeroWord
          /\ Lane(log.blocks[Len(log.blocks)].w, kk) = 4
    /\ k > (value_count + 1) \div 2 + RealWidths(Len(log.blocks))

\* the input is one block of eight zero words
EightZeros == source = << ZeroWord, ZeroWord, ZeroWord, ZeroWord,
                          ZeroWord, ZeroWord, ZeroWord, ZeroWord >>

\* C13 as stated: for eight zero words Encode and EncodeQuick return 4, every
\* lane has payload width 0, and the header at bytes 0..3 is 0x00000000
C13_ZeroBlockHeaderZero ==
    (pc # "init" /\ EightZeros)
        => /\ k = 4
           /\ \A kk \in Lanes : Lane(log.blocks[1].w, kk) = 0
           /\ Load32(destination, 0) = <<0, 0, 0, 0>>

\* C13 as amended: for eight zero words every tz field of the header is
\* stored as 3 (bytes 2 and 3 are 0xFF).  Where the leading-zero count of a
\* zero word is 32, every lane has width 0, every lz field is stored as 3,
\* the header is 0xFFFFFFFF and the encoders return 4; where it is 31, every
\* lane has width 2, every lz field is 2, the header is 0xFFFFAAAA and the
\* encoders return 20; where the undefined count comes out as 40 or more,
\* no lane's cursor advance is 0 and the returned value is not 4
C13_ZeroBlockHeaderOnes ==
    (pc # "init" /\ EightZeros)
        => /\ Len(log.blocks) = 1
           /\ \A kk \in Lanes : Lane(log.blocks[1].tz, kk) = 3
           /\ Hi16(Load32(destination, 0)) = 65535
           /\ clz0 = 32 =>
                /\ k = 4
                /\ \A kk \in Lanes :
                      Lane(log.blocks[1].w, kk) = 0 /\ Lane(log.blocks[1].lz, kk) = 3
                /\ Load32(destination, 0) = <<255, 255, 255, 255>>
           /\ clz0 = 31 =>
                /\ k = 20
                /\ \A kk \in Lanes :
                      Lane(log.blocks[1].w, kk) = 2 /\ Lane(log.blocks[1].lz, kk) = 2
                /\ Load32(destination, 0) = <<170, 170, 255, 255>>
           /\ clz0 \notin {31, 32} =>
                /\ k # 4
                /\ \A kk \in Lanes : Lane(log.blocks[1].w, kk) # 0

\* eight zero words encoded to a 4-byte stream holding the header 0xFFFFFFFF
C13_Witness ==
    /\ pc # "init" /\ EightZeros /\ clz0 = 32
    /\ k = 4
    /\ Load32(destination, 0) = <<255, 255, 255, 255>>

====
